---- MODULE Spec2Model ----
(***************************************************************************)
(* Model of the GitHub activity bot's orchestration pipeline              *)
(* (src/app/graph.py) and of its memory-persistence decision layer        *)
(* (src/app/services/memory_service.py), with the two remote services it  *)
(* sequences (github_service.py, ai_service.py).                          *)
(*                                                                         *)
(* One run of pipeline_graph carries one PipelineState through the nodes  *)
(* fetch -> analyze -> save -> END, or fetch -> error -> END.  The remote *)
(* collaborators (GitHub API, Gemini, the filter LLM, mem0) are the       *)
(* model's inputs: every node draws the collaborator's response from a    *)
(* small set with \E.  A service call is modelled by its awaited result:  *)
(* it returns a value or raises.  (graph.py calls the async methods       *)
(* get_recent_commits and answer_question without await and is driven by  *)
(* the synchronous invoke; the model follows the calls' awaited results,  *)
(* which is what the nodes' try/except branches are written for.)         *)
(*                                                                         *)
(* Python values: None is the string "None"; a raised exception is a      *)
(* record with raised = TRUE and the exception's message.                 *)
(***************************************************************************)
EXTENDS Integers, Sequences, FiniteSets, TLC

VARIABLES
    node,             \* graph node about to run: "idle" before the first run, "END" after a run
    last_node,        \* the node that ran last ("none" when a run has just been invoked)
    state,            \* the run's PipelineState (graph.py:13-22)
    memory,           \* mem0 contents: user_id -> sequence of stored records
    runs,             \* number of runs invoked so far
    calls,            \* this run's collaborator calls, by collaborator
    seen,             \* this run's collaborator responses (what each one answered)
    filter_decision,  \* add_memory's local filter_decision (memory_service.py:131,135)
    filter_errors,    \* times _should_store_content has taken its except branch, all runs
    result,           \* add_memory's return value (memory_service.py:140,162,170)
    last_op,          \* the last direct call of a MemoryService method, with its inputs
    listed,           \* what the last get_history / search_memories call returned
    written,          \* user_id -> the question/answer pairs add_memory has stored for it
    conc,             \* two overlapping runs: each one's node, PipelineState and responses, and the checkpoints
    front,            \* the ask / save front ends: the handler in progress and the last response
    source,           \* what GitHub answered to the last direct call of the fetch stage
    kit               \* spec_kit: the files under specs/ and the last specify / plan / task call

\* The variables of the pipeline run and those of the direct service calls
run_vars ==
    <<node, last_node, state, runs, calls, seen, filter_errors>>
service_vars == <<last_op, listed, written>>

vars ==
    <<node, last_node, state, memory, runs, calls, seen, filter_decision, filter_errors, result,
      last_op, listed, written, conc, front, source, kit>>

----------------------------------------------------------------------------
(* Bounds of the model *)

MaxRuns == 2          \* runs invoked one after another
MaxRepoList == 2      \* repositories the GitHub API lists for the user
MaxRepoCommits == 2   \* commits the GitHub API returns for one repository
MaxRecords == 2       \* records mem0 holds, over all users, in the direct service calls
MaxLimit == 2         \* largest limit passed to get_history / search_memories
MaxFairRuns == 1      \* runs followed to their end under fairness
MaxAsks == 1          \* asks handled by the front ends

(* Program constants *)

MaxRepos == 10        \* github_service.py:26  repos[:10]
MaxPerRepo == 20      \* github_service.py:33  list(repo_commits)[:20]
MaxNameSource == 50   \* spec_kit.py:31  feature_description.split(".")[0][:50]

None == "None"

Users == {"u1", "u2"}

\* The user_id health_check writes under (memory_service.py:239), and the
\* user ids a caller of the service or of the HTTP API may pass.
HealthCheckId == "health_check"
StoreUsers == Users \cup {HealthCheckId}
Questions == {"q1", "q2"}
Answers == {"a1"}

----------------------------------------------------------------------------
(* Helpers *)

Min(a, b) == IF a <= b THEN a ELSE b
Max(a, b) == IF a >= b THEN a ELSE b

\* Python's seq[start:] for any integer start
SliceFrom(seq, start) ==
    LET n == Len(seq)
        first == IF start < 0 THEN Max(n + start, 0) ELSE Min(start, n)
    IN  SubSeq(seq, first + 1, n)

\* Python's seq[:n] for n >= 0
SliceTo(seq, n) == SubSeq(seq, 1, Min(n, Len(seq)))

RECURSIVE Reverse(_)
Reverse(seq) == IF seq = <<>> THEN <<>> ELSE Append(Reverse(Tail(seq)), Head(seq))

RECURSIVE SelectSeq2(_, _)
SelectSeq2(seq, keep) ==
    IF seq = <<>> THEN <<>>
    ELSE IF Head(seq) \in keep THEN <<Head(seq)>> \o SelectSeq2(Tail(seq), keep)
    ELSE SelectSeq2(Tail(seq), keep)

\* Python truthiness of a str | None
Truthy(s) == s # None /\ s # ""

----------------------------------------------------------------------------
(* Collaborator responses: the inputs of a run *)

\* What the GitHub API answers for one repository: repo.get_commits raises,
\* or yields `commits` commits since the lookback instant.
RepoRaises == [raises |-> TRUE, commits |-> 0]
RepoCommits(k) == [raises |-> FALSE, commits |-> k]

\* Repository lists the API may return, newest push first.
RepoLists ==
    { <<>>,
      << RepoCommits(0) >>,
      << RepoRaises >>,
      << RepoRaises, RepoCommits(1) >>,
      << RepoCommits(MaxRepoCommits), RepoCommits(0) >>,
      [i \in 1..MaxRepoList |-> RepoCommits(1)] }

\* The GitHub call as a whole: listing succeeds, the 30 s wait_for expires,
\* or get_repos raises.
GitHubResponses ==
    { [kind |-> "ok", repos |-> r] : r \in RepoLists }
        \cup { [kind |-> k, repos |-> <<>>] : k \in {"timeout", "error"} }

\* The Gemini call of the Synthesizer: a text, the 30 s wait_for expires,
\* or llm.invoke raises.
LLMResponses ==
    { [kind |-> "ok", content |-> a] : a \in Answers }
        \cup { [kind |-> k, content |-> None] : k \in {"timeout", "error"} }

\* JSON values of the "store" member the filter LLM may send, as Python
\* values: True, False, None (null) and a non-empty str.
StoreValues == {"True", "False", "None", "str"}

\* Python truthiness of such a value (memory_service.py:138 `if not should_store`)
StoreTruthy(v) == v \in {"True", "str"}

\* The filter LLM's call: it raises; its content is no JSON; the JSON is no
\* object; the object lacks "store"; it lacks "reason"; or it is an object
\* with both members.
FilterResponses ==
    { [kind |-> k, store |-> "None", reason |-> None] :
          k \in {"raise", "notjson", "nondict", "nostore", "noreason"} }
        \cup { [kind |-> "object", store |-> v, reason |-> "llm reason"] : v \in StoreValues }

\* mem0's Memory.add: it stores the record, or raises (store unavailable).
WriteResponses == {"ok", "raise"}

----------------------------------------------------------------------------
(* Python call results *)

Return(v) == [raised |-> FALSE, msg |-> None, value |-> v]
Raise(m, v0) == [raised |-> TRUE, msg |-> m, value |-> v0]   \* v0: a value of the return type, never read

(* app/models.py: GitHubData.  commits holds, for each Commit, the index of
   the repository it came from. *)
GitHubData(commits) == [present |-> TRUE, commits |-> commits, total_commits |-> Len(commits)]

\* github_data: None
NoGitHubData == [present |-> FALSE, commits |-> <<>>, total_commits |-> 0]

----------------------------------------------------------------------------
(* github_service.py *)

\* Mutant: a repository's commits taken without the cap of 20
RepoContribution_uncapped(repos, i) ==
    IF repos[i].raises THEN <<>>
    ELSE [j \in 1..repos[i].commits |-> i]

\* The commits one repository contributes: none when its read raises
\* (lines 43-45), else its first 20 commits (line 33).
RepoContribution(repos, i) ==
    IF repos[i].raises THEN <<>>
    ELSE [j \in 1..Min(repos[i].commits, MaxPerRepo) |-> i]

\* _fetch_commits (lines 23-46): the first 10 repositories, in order.
RECURSIVE FetchFrom(_, _)
FetchFrom(repos, i) ==
    IF i > Min(Len(repos), MaxRepos) THEN <<>>
    ELSE RepoContribution(repos, i) \o FetchFrom(repos, i + 1)

fetch_commits(repos) == FetchFrom(repos, 1)

\* GitHubService.get_recent_commits (lines 17-63)
get_recent_commits(g) ==
    CASE g.kind = "timeout" ->
             Raise("GitHub API request timed out. Please try again.", NoGitHubData)
      [] g.kind = "error" -> Raise("github error", NoGitHubData)
      [] OTHER -> Return(GitHubData(fetch_commits(g.repos)))

----------------------------------------------------------------------------
(* ai_service.py *)

\* Mutant: the language model is asked even about no commits
answer_question_always_calls(question, github_data, l) ==
    CASE l.kind = "ok" -> Return(l.content) @@ [called |-> TRUE]
      [] l.kind = "timeout" ->
             Raise("AI service request timed out. Please try again.", None)
                 @@ [called |-> TRUE]
      [] OTHER -> Raise("gemini error", None) @@ [called |-> TRUE]

\* AIService.answer_question (lines 20-71).  called: whether llm.invoke ran.
answer_question(question, github_data, l) ==
    IF ~github_data.present \/ github_data.commits = <<>>
    THEN Return("No recent commits found.") @@ [called |-> FALSE]
    ELSE CASE l.kind = "ok" -> Return(l.content) @@ [called |-> TRUE]
           [] l.kind = "timeout" ->
                  Raise("AI service request timed out. Please try again.", None)
                      @@ [called |-> TRUE]
           [] OTHER -> Raise("gemini error", None) @@ [called |-> TRUE]

----------------------------------------------------------------------------
(* memory_service.py *)

\* MemoryService._build_container_tags (lines 36-41)
build_container_tags(user_id) == << "user_" \o user_id >>

\* MemoryService._build_metadata (lines 43-53); the fields that do not vary
\* (type, source, sensitivity, tags) and the clock reading are left out.
build_metadata(user_id, commits_analyzed) ==
    [created_by |-> user_id, commits_analyzed |-> commits_analyzed]

\* The record mem0 holds after memory.add(messages, user_id, metadata)
\* (lines 150-157).
MemoryRecord(user_id, question, answer, metadata) ==
    [user_id |-> user_id, question |-> question, answer |-> answer, metadata |-> metadata]

\* Mutant: a filter that fails closed, dropping the content on any error
should_store_content_fail_closed(f) ==
    IF f.kind = "object"
    THEN [store |-> f.store, reason |-> f.reason]
    ELSE [store |-> "False", reason |-> "Filter error"]

\* Mutant: only a provider exception is caught; a reply that cannot be read
\* counts as a refusal
should_store_content_unparsed_refused(f) ==
    IF f.kind = "object"
    THEN [store |-> f.store, reason |-> f.reason]
    ELSE IF f.kind = "raise"
    THEN [store |-> "True", reason |-> "Filter error - storing by default"]
    ELSE [store |-> "False", reason |-> None]

\* MemoryService._should_store_content (lines 55-94): the parsed object when
\* the LLM call, json.loads and the reads of result['store'] and
\* result['reason'] all succeed (lines 83-89); otherwise the except branch
\* (lines 91-94).
should_store_content(f) ==
    IF f.kind = "object"
    THEN [store |-> f.store, reason |-> f.reason]
    ELSE [store |-> "True", reason |-> "Filter error - storing by default"]

NoDecision == [store |-> "None", reason |-> None]
NoResult == [success |-> FALSE, filtered |-> FALSE, reason |-> None, error |-> None]

\* Mutant: the override flag is ignored and the filter always asked
filter_step_ignoring_override(force_store, f) ==
    [called |-> TRUE, decision |-> should_store_content(f),
     should_store |-> StoreTruthy(should_store_content(f).store)]

\* add_memory, lines 128-136: the user override skips the filter and fixes
\* the decision; otherwise the filter is asked.  called: whether it was.
filter_step(force_store, f) ==
    IF force_store
    THEN [called |-> FALSE, decision |-> [store |-> "True", reason |-> "User override"],
          should_store |-> TRUE]
    ELSE [called |-> TRUE, decision |-> should_store_content(f),
          should_store |-> StoreTruthy(should_store_content(f).store)]

\* Mutant: the exception is logged and raised again
add_memory_reraise(msg) ==
    [raised |-> TRUE,
     result |-> [success |-> FALSE, filtered |-> FALSE, reason |-> None, error |-> msg]]

\* Mutant: the exception is swallowed and the write reported as done
add_memory_swallow(msg) ==
    [raised |-> FALSE,
     result |-> [success |-> TRUE, filtered |-> FALSE, reason |-> None, error |-> None]]

\* add_memory, lines 168-170: an exception anywhere in the body is caught and
\* reported in the return value.
add_memory_except(msg) ==
    [raised |-> FALSE,
     result |-> [success |-> FALSE, filtered |-> FALSE, reason |-> None, error |-> msg]]

\* MemoryService.add_memory (lines 96-170) on the store contents mem, with
\* the filter LLM answering f and mem0 answering w.
add_memory(user_id, question, answer, commits_analyzed, force_store, f, w, mem) ==
    LET fs == filter_step(force_store, f)
        metadata == build_metadata(user_id, commits_analyzed)
        record == MemoryRecord(user_id, question, answer, metadata)
        out == [filter_called |-> fs.called, filter_decision |-> fs.decision]
    IN  IF ~fs.should_store
        THEN out @@ [raised |-> FALSE, write_attempted |-> FALSE, memory |-> mem,
                     result |-> [success |-> FALSE, filtered |-> TRUE,
                                 reason |-> fs.decision.reason, error |-> None]]
        ELSE IF w = "raise"
        THEN out @@ [write_attempted |-> TRUE, memory |-> mem] @@ add_memory_except("mem0 error")
        ELSE out @@ [raised |-> FALSE, write_attempted |-> TRUE,
                     memory |-> [mem EXCEPT ![user_id] = Append(@, record)],
                     result |-> [success |-> TRUE, filtered |-> FALSE,
                                 reason |-> fs.decision.reason, error |-> None]]

----------------------------------------------------------------------------
(* memory_service.py: retrieval and health check, and mem0 at its boundary *)

\* Mutant: a store that ignores the scope and returns every user's records
get_all_unscoped(mem, user_id) == mem["u1"] \o mem["u2"] \o mem[HealthCheckId]

\* mem0's Memory.get_all(user_id=...): the records held for that user_id,
\* oldest first.
get_all(mem, user_id) == mem[user_id]

\* The limits and queries a caller may pass, and the two orders in which
\* mem0 may rank what it finds.
Limits == -1..MaxLimit
Queries == Questions \cup {"other"}
Rankings == {"newest", "oldest"}

\* mem0's Memory.search(query, user_id, limit): the records of that user_id
\* the query matches, in mem0's ranking, at most limit of them.
search(mem, query, user_id, limit, ranking) ==
    LET own == mem[user_id]
        hits == SelectSeq2(own, {r \in {own[i] : i \in 1..Len(own)} : r.question = query})
        ranked == IF ranking = "newest" THEN Reverse(hits) ELSE hits
    IN  SliceTo(ranked, Max(limit, 0))

\* Mutant: the history comes back most recent first
get_history_newest_first(mem, user_id, limit, g) ==
    IF g = "raise" THEN <<>>
    ELSE LET memories == get_all(mem, user_id)
         IN  IF memories # <<>> THEN Reverse(SliceFrom(memories, 0 - limit)) ELSE <<>>

\* MemoryService.get_history (lines 172-199); g is mem0's answer to get_all
\* ("ok" or "raise").
get_history(mem, user_id, limit, g) ==
    IF g = "raise" THEN <<>>
    ELSE LET memories == get_all(mem, user_id)
         IN  IF memories # <<>> THEN SliceFrom(memories, 0 - limit) ELSE <<>>

\* MemoryService.search_memories (lines 201-223); g is mem0's answer to
\* search: "raise", or the ranking it applies.
search_memories(mem, user_id, query, limit, g) ==
    IF g = "raise" THEN <<>>
    ELSE LET results == search(mem, query, user_id, limit, g)
         IN  IF results # <<>> THEN results ELSE <<>>

\* The record health_check writes (lines 229-241)
HealthRecord ==
    [user_id |-> HealthCheckId, question |-> "health_check", answer |-> None,
     metadata |-> [created_by |-> "health_check", commits_analyzed |-> 0]]

\* MemoryService.health_check (lines 225-246); w is mem0's answer to add.
health_check(mem, w) ==
    IF w = "raise" THEN [ok |-> FALSE, memory |-> mem]
    ELSE [ok |-> TRUE, memory |-> [mem EXCEPT ![HealthCheckId] = Append(@, HealthRecord)]]

----------------------------------------------------------------------------
(* graph.py: the nodes *)

\* initial_state as the callers build it (main.py:66-74, 136-144), for a
\* question, a user and an override flag.
InitialState(q, u, fs) ==
    [question |-> q, user_id |-> u, github_data |-> NoGitHubData, answer |-> None,
     commits_analyzed |-> 0, error |-> None, force_store |-> fs]

\* Mutant: the error branch builds its state anew instead of spreading **state
fetch_github_data_rebuild(s, g) ==
    LET r == get_recent_commits(g)
    IN  IF r.raised
        THEN [InitialState(s.question, s.user_id, FALSE) EXCEPT
                  !.error = "GitHub fetch failed: " \o r.msg]
        ELSE [s EXCEPT !.github_data = r.value,
                       !.commits_analyzed = r.value.total_commits]

\* fetch_github_data (lines 25-38)
fetch_github_data(s, g) ==
    LET r == get_recent_commits(g)
    IN  IF r.raised
        THEN [s EXCEPT !.error = "GitHub fetch failed: " \o r.msg]
        ELSE [s EXCEPT !.github_data = r.value,
                       !.commits_analyzed = r.value.total_commits]

\* Mutant: the Synthesizer's text is not put into the state
analyze_with_ai_drop_answer(s, l) ==
    LET r == answer_question(s.question, s.github_data, l)
    IN  IF r.raised
        THEN [s EXCEPT !.error = "AI failed: " \o r.msg]
        ELSE s

\* analyze_with_ai (lines 41-50)
analyze_with_ai(s, l) ==
    LET r == answer_question(s.question, s.github_data, l)
    IN  IF r.raised
        THEN [s EXCEPT !.error = "AI failed: " \o r.msg]
        ELSE [s EXCEPT !.answer = r.value]

\* save_to_memory (lines 53-74), given add_memory's outcome r
save_to_memory(s, r) ==
    IF r.raised
    THEN [s EXCEPT !.error = "Memory save failed: " \o r.result.error]
    ELSE s

\* handle_error (lines 77-80)
handle_error(s) == s

\* Mutant: the router without its empty-result check (line 88)
should_continue_ignoring_count(s) ==
    IF Truthy(s.error) THEN "error" ELSE "analyze"

\* should_continue_after_fetch (lines 83-92)
should_continue_after_fetch(s) ==
    IF Truthy(s.error) THEN "error"
    ELSE IF s.commits_analyzed = 0 THEN "error"
    ELSE "analyze"

(* graph.py: the edges (create_pipeline_graph, lines 106-115) *)

\* Mutant: the graph entered at analyze
EntryPoint_Analyze == "analyze"

EntryPoint == "fetch"

\* Mutant: a failed fetch is tried again
EdgeAfterFetch_Retry(s) ==
    IF Truthy(s.error) THEN "fetch" ELSE should_continue_after_fetch(s)

EdgeAfterFetch(s) == should_continue_after_fetch(s)

\* Mutant: analyze wired straight to END
EdgeAfterAnalyze_End == "END"

EdgeAfterAnalyze == "save"
EdgeAfterSave == "END"

\* Mutant: the error node wired back to itself
EdgeAfterError_Loop == "error"

EdgeAfterError == "END"

----------------------------------------------------------------------------
(* spec_kit.py: SpecKitService.  Texts are sequences of characters. *)

Repeat(c, n) == [i \in 1..n |-> c]

\* str.lower (line 22), on the characters used here
Lower(c) == CASE c = "A" -> "a" [] c = "B" -> "b" [] OTHER -> c

\* The character classes of the two patterns (lines 23-24): \w, and [-\s]
IsWord(c) == c \in {"a", "b", "A", "B", "_"}
IsSeparator(c) == c \in {" ", "-"}

\* re.sub(r"[-\s]+", "-", text) (line 24)
RECURSIVE CollapseRuns(_)
CollapseRuns(t) ==
    IF t = <<>> THEN <<>>
    ELSE IF IsSeparator(Head(t))
         THEN IF Tail(t) # <<>> /\ IsSeparator(Head(Tail(t)))
              THEN CollapseRuns(Tail(t))
              ELSE <<"-">> \o CollapseRuns(Tail(t))
         ELSE <<Head(t)>> \o CollapseRuns(Tail(t))

\* text.strip("-") (line 25)
RECURSIVE StripLeft(_)
StripLeft(t) == IF t # <<>> /\ Head(t) = "-" THEN StripLeft(Tail(t)) ELSE t

RECURSIVE StripRight(_)
StripRight(t) ==
    IF t # <<>> /\ t[Len(t)] = "-" THEN StripRight(SubSeq(t, 1, Len(t) - 1)) ELSE t

\* _slugify (lines 20-25)
slugify(text) ==
    LET lowered == [i \in 1..Len(text) |-> Lower(text[i])]
        kept == SelectSeq(lowered, LAMBDA c : IsWord(c) \/ IsSeparator(c))
    IN  StripRight(StripLeft(CollapseRuns(kept)))

\* feature_description.split(".")[0] (line 31)
RECURSIVE FirstSentence(_)
FirstSentence(t) ==
    IF t = <<>> \/ Head(t) = "." THEN <<>> ELSE <<Head(t)>> \o FirstSentence(Tail(t))

\* feature_name as specify derives it from the description (line 31)
FeatureNameOf(d) == slugify(SliceTo(FirstSentence(d), MaxNameSource))

\* Descriptions passed to specify: two that name the same feature through
\* lowering, deletion, collapsing, stripping and the cut at the first ".";
\* one whose slug is empty; two that differ only past the first 50 characters.
Descriptions ==
    { <<"A", " ", "B">>,
      <<"-", "a", "!", " ", "-", "b", "-", ".", "b">>,
      <<"!", ".", "a">>,
      Repeat("a", MaxNameSource) \o <<"b">>,
      Repeat("A", MaxNameSource) }

\* feature_name as plan and task receive it: any text, slug or not
KitNames == { FeatureNameOf(d) : d \in Descriptions } \cup { <<"A", "-", "B">> }

\* The text the model returns; its wording plays no part in which files exist
KitContents == {"c1"}

\* self.llm.invoke(messages): a response with its content, or an exception
KitLLMResponses ==
    { [kind |-> "ok", content |-> c] : c \in KitContents }
        \cup { [kind |-> "error", content |-> None] }

\* specs/ right after __init__ (lines 16-17): of each feature directory,
\* whether it exists, and the contents of its files (None: no such file).
\* The empty name is specs/ itself, which __init__ has created.
NoFeatureFiles(n) ==
    [dir |-> n = <<>>, spec |-> None, contracts |-> FALSE, models |-> None,
     plan |-> None, tasks |-> None]

\* specify (lines 27-70), given the model's answer l
specify(files, d, l) ==
    LET name == FeatureNameOf(d)
        made == [files EXCEPT ![name].dir = TRUE]
    IN  IF l.kind # "ok"
        THEN [files |-> made, raised |-> TRUE, msg |-> "LLM error", feature_name |-> name]
        ELSE [files |-> [made EXCEPT ![name].spec = l.content], raised |-> FALSE,
              msg |-> None, feature_name |-> name]

\* Mutant: plan without the check of spec.md (lines 79-81)
plan_unchecked(files, n, l1, l2) ==
    LET made == [files EXCEPT ![n].contracts = TRUE]
        withModels == [made EXCEPT ![n].models = l1.content]
    IN  IF l1.kind # "ok"
        THEN [files |-> made, raised |-> TRUE, msg |-> "LLM error"]
        ELSE IF l2.kind # "ok"
        THEN [files |-> withModels, raised |-> TRUE, msg |-> "LLM error"]
        ELSE [files |-> [withModels EXCEPT ![n].plan = l2.content], raised |-> FALSE,
              msg |-> None]

\* plan (lines 72-142), given the model's answers l1 (contracts) and l2 (plan).
\* models.py receives the code extracted from l1's content (lines 104-107).
plan(files, n, l1, l2) ==
    LET made == [files EXCEPT ![n].contracts = TRUE]
        withModels == [made EXCEPT ![n].models = l1.content]
    IN  IF files[n].spec = None
        THEN [files |-> files, raised |-> TRUE, msg |-> "Run /specify first"]
        ELSE IF l1.kind # "ok"
        THEN [files |-> made, raised |-> TRUE, msg |-> "LLM error"]
        ELSE IF l2.kind # "ok"
        THEN [files |-> withModels, raised |-> TRUE, msg |-> "LLM error"]
        ELSE [files |-> [withModels EXCEPT ![n].plan = l2.content], raised |-> FALSE,
              msg |-> None]

\* task (lines 144-187), given the model's answer l
task(files, n, l) ==
    IF files[n].spec = None
    THEN [files |-> files, raised |-> TRUE, msg |-> "Run /specify first"]
    ELSE IF l.kind # "ok"
    THEN [files |-> files, raised |-> TRUE, msg |-> "LLM error"]
    ELSE [files |-> [files EXCEPT ![n].tasks = l.content], raised |-> FALSE, msg |-> None]

\* The directory plan creates inside specs/ when feature_name is empty
ContractsName == <<"c", "o", "n", "t", "r", "a", "c", "t", "s">>

\* list_features (lines 189-204): the directories inside specs/
list_features(files) ==
    { [name |-> n, has_spec |-> files[n].spec # None, has_plan |-> files[n].plan # None,
       has_tasks |-> files[n].tasks # None] :
          n \in { m \in KitNames : m # <<>> /\ files[m].dir /\ Head(m) # "." } }
        \cup (IF files[<<>>].contracts
              THEN {[name |-> ContractsName, has_spec |-> FALSE, has_plan |-> FALSE,
                     has_tasks |-> FALSE]}
              ELSE {})

\* No specify / plan / task called yet
NoKitOp == [kind |-> "none", name |-> <<>>, raised |-> FALSE, msg |-> None]

NoKit == [files |-> [n \in KitNames |-> NoFeatureFiles(n)], op |-> NoKitOp]

----------------------------------------------------------------------------
(* The state machine *)

NoCalls == [datasource |-> 0, synthesizer |-> 0, llm |-> 0, add |-> 0, filter |-> 0, store |-> 0]

NoFilter == [kind |-> "none", store |-> "None", reason |-> None]

\* Nothing seen yet.  fetch and analyze: how the service call of the stage
\* ended ("returned" or "raised"); answer: the text answer_question returned;
\* filter and write: the raw responses of the filter LLM and of mem0.
NothingSeen ==
    [fetch |-> "none", analyze |-> "none", answer |-> None, filter |-> NoFilter, write |-> "none"]

Outcome(r) == IF r.raised THEN "raised" ELSE "returned"

\* No direct service call yet.  store: what mem0 answered to the call ("none"
\* when it was not called); raised: whether the call raised to its caller.
NoOp ==
    [kind |-> "none", user_id |-> "u1", question |-> "q1", limit |-> 0, store |-> "none",
     raised |-> FALSE]

\* The two overlapping runs
Runs == {"r1", "r2"}

\* Nothing answered to a run yet: its inputs and its collaborators' answers.
NoAnswers ==
    [question |-> "q1", user_id |-> "u1",
     g |-> [kind |-> "none", repos |-> <<>>], l |-> [kind |-> "none", content |-> None],
     f |-> NoFilter, w |-> "none"]

\* MemorySaver before any run: no checkpoint for any thread_id
NoCheckpoint == [present |-> FALSE, state |-> InitialState("q1", "u1", FALSE)]

NoConc ==
    [node |-> [r \in Runs |-> "idle"],
     state |-> [r \in Runs |-> InitialState("q1", "u1", FALSE)],
     seen |-> [r \in Runs |-> NoAnswers],
     checkpoint |-> [u \in Users |-> NoCheckpoint],
     overlap |-> FALSE]

\* No /ask or /save handled yet.  saved[u]: u has issued /save and no ask
\* since; after_save: the ask in hand is its user's first ask after a /save.
NoResponse == [kind |-> "none", answer |-> None, commits_analyzed |-> 0, message |-> None]

\* No direct call of the fetch stage yet
NoSource == [kind |-> "none", repos |-> <<>>]

NoFront ==
    [pending |-> FALSE, via |-> "none", saved |-> [u \in Users |-> FALSE],
     after_save |-> FALSE, response |-> NoResponse]

Init ==
    /\ node = "idle"
    /\ last_node = "none"
    /\ state = InitialState("q1", "u1", FALSE)
    /\ memory = [u \in StoreUsers |-> <<>>]
    /\ runs = 0
    /\ calls = NoCalls
    /\ seen = NothingSeen
    /\ filter_decision = NoDecision
    /\ filter_errors = 0
    /\ result = NoResult
    /\ last_op = NoOp
    /\ listed = <<>>
    /\ written = [u \in StoreUsers |-> <<>>]
    /\ conc = NoConc
    /\ front = NoFront
    /\ source = NoSource
    /\ kit = NoKit

\* pipeline_graph.invoke(initial_state, config): a new run starts at the
\* entry point once the previous one has returned.
InvokeRun(q, u, fs) ==
    /\ node \in {"idle", "END"}
    /\ runs < MaxRuns
    /\ node' = EntryPoint
    /\ last_node' = "none"
    /\ state' = InitialState(q, u, fs)
    /\ runs' = runs + 1
    /\ calls' = NoCalls
    /\ seen' = NothingSeen
    /\ filter_decision' = NoDecision
    /\ result' = NoResult
    /\ UNCHANGED <<memory, filter_errors>>
    /\ UNCHANGED service_vars
    /\ UNCHANGED conc
    /\ UNCHANGED source
    /\ UNCHANGED kit

\* invoke called with no front end in the picture
Invoke(q, u, fs) ==
    /\ InvokeRun(q, u, fs)
    /\ UNCHANGED front

\* Node "fetch" and its conditional edge
Fetch(g) ==
    /\ node = "fetch"
    /\ state' = fetch_github_data(state, g)
    /\ node' = EdgeAfterFetch(state')
    /\ last_node' = "fetch"
    /\ calls' = [calls EXCEPT !.datasource = @ + 1]
    /\ seen' = [seen EXCEPT !.fetch = Outcome(get_recent_commits(g))]
    /\ UNCHANGED <<memory, runs, filter_decision, filter_errors, result>>
    /\ UNCHANGED service_vars
    /\ UNCHANGED conc
    /\ UNCHANGED source
    /\ UNCHANGED kit
    /\ UNCHANGED front

\* Node "analyze" and its edge
Analyze(l) ==
    /\ node = "analyze"
    /\ LET r == answer_question(state.question, state.github_data, l)
       IN  /\ calls' = [calls EXCEPT !.synthesizer = @ + 1,
                                     !.llm = IF r.called THEN @ + 1 ELSE @]
           /\ seen' = [seen EXCEPT !.analyze = Outcome(r),
                                   !.answer = r.value]
    /\ state' = analyze_with_ai(state, l)
    /\ node' = EdgeAfterAnalyze
    /\ last_node' = "analyze"
    /\ UNCHANGED <<memory, runs, filter_decision, filter_errors, result>>
    /\ UNCHANGED service_vars
    /\ UNCHANGED conc
    /\ UNCHANGED source
    /\ UNCHANGED kit
    /\ UNCHANGED front

\* Node "save" and its edge.  f is what the filter LLM answers when asked
\* (and would have answered when it is not asked), w what mem0 answers.
Save(f, w) ==
    /\ node = "save"
    /\ LET r == add_memory(state.user_id, state.question, state.answer,
                           state.commits_analyzed, state.force_store, f, w, memory)
       IN  /\ state' = save_to_memory(state, r)
           /\ memory' = r.memory
           /\ filter_decision' = r.filter_decision
           /\ filter_errors' = IF r.filter_called /\ f.kind # "object"
                                THEN filter_errors + 1 ELSE filter_errors
           /\ result' = r.result
           /\ calls' = [calls EXCEPT !.add = @ + 1,
                                     !.filter = IF r.filter_called THEN @ + 1 ELSE @,
                                     !.store = IF r.write_attempted THEN @ + 1 ELSE @]
           /\ seen' = [seen EXCEPT !.filter = f,
                                   !.write = IF r.write_attempted THEN w ELSE @]
    /\ node' = EdgeAfterSave
    /\ last_node' = "save"
    /\ UNCHANGED runs
    /\ UNCHANGED service_vars
    /\ UNCHANGED conc
    /\ UNCHANGED source
    /\ UNCHANGED kit
    /\ UNCHANGED front

\* Node "error" and its edge
HandleError ==
    /\ node = "error"
    /\ state' = handle_error(state)
    /\ node' = EdgeAfterError
    /\ last_node' = "error"
    /\ UNCHANGED <<memory, runs, calls, seen, filter_decision, filter_errors, result>>
    /\ UNCHANGED service_vars
    /\ UNCHANGED conc
    /\ UNCHANGED source
    /\ UNCHANGED kit
    /\ UNCHANGED front

Next ==
    \/ \E q \in Questions, u \in Users, fs \in BOOLEAN : Invoke(q, u, fs)
    \/ \E g \in GitHubResponses : Fetch(g)
    \/ \E l \in LLMResponses : Analyze(l)
    \/ \E f \in FilterResponses, w \in WriteResponses : Save(f, w)
    \/ HandleError

Spec == Init /\ [][Next]_vars

\* invoke (main.py:78, 147) drives a started run node by node until END, and
\* every node returns: the collaborators' calls are bounded by timeouts
\* (github_service.py:48-56, ai_service.py:56-68) or end by raising.
NodeStep ==
    \/ \E g \in GitHubResponses : Fetch(g)
    \/ \E l \in LLMResponses : Analyze(l)
    \/ \E f \in FilterResponses, w \in WriteResponses : Save(f, w)
    \/ HandleError

Fairness == WF_vars(NodeStep)

\* The runs whose termination is followed
FairInvoke(q, u, fs) ==
    /\ runs < MaxFairRuns
    /\ Invoke(q, u, fs)

FairNext ==
    \/ \E q \in Questions, u \in Users, fs \in BOOLEAN : FairInvoke(q, u, fs)
    \/ NodeStep

FairSpec == Init /\ [][FairNext]_vars /\ Fairness

\* The run has returned: final_state is state.
Returned == node = "END"

\* The run ended in the error terminal / in done (through save).
EndedInError == Returned /\ last_node = "error"
EndedInDone == Returned /\ last_node = "save"

TypeOK ==
    /\ node \in {"idle", "fetch", "analyze", "save", "error", "END"}
    /\ last_node \in {"none", "fetch", "analyze", "save", "error"}
    /\ state.question \in Questions /\ state.user_id \in Users
    /\ state.force_store \in BOOLEAN
    /\ runs \in 0..MaxRuns
    /\ \A u \in Users : Len(memory[u]) <= runs

----------------------------------------------------------------------------
(* Direct calls of the MemoryService methods: add_memory as save_to_memory
   calls it, get_history as the /history endpoint and the history command
   call it (main.py:97-101, 182-187), search_memories, and health_check as
   /health and the stats command call it (main.py:54, 284). *)

RECURSIVE TotalOver(_, _)
TotalOver(mem, users) ==
    IF users = {} THEN 0
    ELSE LET u == CHOOSE x \in users : TRUE
         IN  Len(mem[u]) + TotalOver(mem, users \ {u})

TotalRecords(mem) == TotalOver(mem, StoreUsers)

\* The filter answers tried in the direct calls: it retains or refuses.
DirectFilterResponses ==
    { f \in FilterResponses : f.kind = "object" /\ f.store \in {"True", "False"} }

AddMemory(u, q, a, fs, f, w) ==
    /\ TotalRecords(memory) < MaxRecords
    /\ LET r == add_memory(u, q, a, 1, fs, f, w, memory)
       IN  /\ memory' = r.memory
           /\ result' = r.result
           /\ filter_decision' = r.filter_decision
           /\ written' = IF r.write_attempted /\ w = "ok"
                         THEN [written EXCEPT ![u] = Append(@, [question |-> q, answer |-> a])]
                         ELSE written
           /\ last_op' = [NoOp EXCEPT !.kind = "add", !.user_id = u, !.question = q,
                                      !.store = IF r.write_attempted THEN w ELSE "none",
                                      !.raised = r.raised]
    /\ listed' = <<>>
    /\ UNCHANGED run_vars
    /\ UNCHANGED conc
    /\ UNCHANGED source
    /\ UNCHANGED kit
    /\ UNCHANGED front

\* `result` and `filter_decision` hold what the latest add_memory returned;
\* the other calls return `listed` or a flag and leave nothing of an earlier
\* add behind.
GetHistory(u, limit, g) ==
    /\ listed' = get_history(memory, u, limit, g)
    /\ last_op' = [NoOp EXCEPT !.kind = "list", !.user_id = u, !.limit = limit, !.store = g]
    /\ result' = NoResult
    /\ filter_decision' = NoDecision
    /\ UNCHANGED <<memory, written>>
    /\ UNCHANGED run_vars
    /\ UNCHANGED conc
    /\ UNCHANGED source
    /\ UNCHANGED kit
    /\ UNCHANGED front

SearchMemories(u, query, limit, g) ==
    /\ listed' = search_memories(memory, u, query, limit, g)
    /\ last_op' = [NoOp EXCEPT !.kind = "search", !.user_id = u, !.question = query,
                               !.limit = limit, !.store = g]
    /\ result' = NoResult
    /\ filter_decision' = NoDecision
    /\ UNCHANGED <<memory, written>>
    /\ UNCHANGED run_vars
    /\ UNCHANGED conc
    /\ UNCHANGED source
    /\ UNCHANGED kit
    /\ UNCHANGED front

HealthCheck(w) ==
    /\ TotalRecords(memory) < MaxRecords
    /\ memory' = health_check(memory, w).memory
    /\ last_op' = [NoOp EXCEPT !.kind = "health", !.user_id = HealthCheckId, !.store = w]
    /\ listed' = <<>>
    /\ result' = NoResult
    /\ filter_decision' = NoDecision
    /\ UNCHANGED written
    /\ UNCHANGED run_vars
    /\ UNCHANGED conc
    /\ UNCHANGED source
    /\ UNCHANGED kit
    /\ UNCHANGED front

\* The calls a user of the service makes: no health check among them.
UserNext ==
    \/ \E u \in StoreUsers, q \in Questions, a \in Answers, fs \in BOOLEAN,
          f \in DirectFilterResponses, w \in WriteResponses : AddMemory(u, q, a, fs, f, w)
    \/ \E u \in StoreUsers, limit \in Limits, g \in WriteResponses : GetHistory(u, limit, g)
    \/ \E u \in StoreUsers, query \in Queries, limit \in Limits,
          g \in Rankings \cup {"raise"} : SearchMemories(u, query, limit, g)

UserSpec == Init /\ [][UserNext]_vars

\* The same calls with the health check of /health and the stats command.
StoreNext ==
    \/ \E u \in StoreUsers, q \in Questions, a \in Answers, fs \in BOOLEAN,
          f \in DirectFilterResponses, w \in WriteResponses : AddMemory(u, q, a, fs, f, w)
    \/ \E u \in StoreUsers, limit \in Limits, g \in WriteResponses : GetHistory(u, limit, g)
    \/ \E u \in StoreUsers, query \in Queries, limit \in Limits,
          g \in Rankings \cup {"raise"} : SearchMemories(u, query, limit, g)
    \/ \E w \in WriteResponses : HealthCheck(w)

StoreSpec == Init /\ [][StoreNext]_vars

----------------------------------------------------------------------------
(* Claims about the orchestrator's routing *)

\* The fetch stage succeeded with no record.
EmptyFetch == seen.fetch = "returned" /\ state.commits_analyzed = 0

\* The Synthesizer of this run failed or timed out.
SynthesizerFailed == seen.analyze = "raised"

\* C1: in every run whose fetch succeeds with record_count = 0, the run goes
\* to the error terminal (it is at the error node or has returned through
\* it) and the Synthesizer is never invoked.
C1_EmptyFetchRoutesToError ==
    EmptyFetch =>
        /\ node \in {"error", "END"}
        /\ Returned => last_node = "error"
        /\ calls.synthesizer = 0
        /\ calls.llm = 0

C1_Witness == EndedInError /\ EmptyFetch /\ calls.datasource = 1

----------------------------------------------------------------------------
(* Claims about the persistence decision *)

\* The filter LLM's call raised, or its reply cannot be read as a JSON object
\* with a "store" and a "reason" member.
FilterFails(f) == f.kind \in {"raise", "notjson", "nondict", "nostore", "noreason"}

\* The filter answered, and its "store" value counts as true.
FilterRetains(f) == f.kind = "object" /\ StoreTruthy(f.store)

\* A step of the persist stage, and what it did to the store.
PersistStep == node = "save" /\ node' = "END"
WriteAttempted == calls'.store = calls.store + 1
RecordCreated ==
    /\ Len(memory'[state.user_id]) = Len(memory[state.user_id]) + 1
    /\ SubSeq(memory'[state.user_id], 1, Len(memory[state.user_id])) = memory[state.user_id]
NoRecordCreated == memory' = memory

\* The three conditions of the invariant, for the filter response of the step.
RetentionCondition ==
    state.force_store \/ FilterRetains(seen'.filter) \/ FilterFails(seen'.filter)

\* C6 as stated: the persist stage creates a MemoryRecord if and only if
\* force_store is true or the filter returns retain=true or the filter fails
\* (read on the runs that reach persist after a successful analysis).
C6_RecordCreatedIff ==
    [][(PersistStep /\ seen.analyze = "returned") =>
          (RecordCreated <=> RetentionCondition)]_vars

\* C6 amended: the persist stage attempts a MemoryStore write if and only if
\* one of the three conditions holds, and a MemoryRecord is created if and
\* only if that write is attempted and succeeds; otherwise the store is left
\* as it was.
C6_WriteAttemptedIff ==
    [][PersistStep =>
          /\ WriteAttempted <=> RetentionCondition
          /\ RecordCreated <=> (RetentionCondition /\ seen'.write = "ok")
          /\ RecordCreated \/ NoRecordCreated]_vars

C6_Witness ==
    /\ EndedInDone /\ ~state.force_store
    /\ FilterRetains(seen.filter)
    /\ calls.store = 1 /\ seen.write = "ok" /\ result.success
    /\ Len(memory[state.user_id]) >= 1

\* C7: whatever the persist stage's outcome, a run whose analyze stage
\* succeeded returns the Synthesizer's answer with error absent.
C7_PersistKeepsOutcome ==
    (Returned /\ seen.analyze = "returned") =>
        /\ state.answer = seen.answer
        /\ state.answer # None
        /\ state.error = None

C7_Witness ==
    /\ EndedInDone /\ seen.analyze = "returned"
    /\ seen.write = "raise" /\ ~result.success /\ result.error # None

\* C8: a run whose analyze stage completed successfully goes on to the
\* persist stage and does not return before add_memory has been called.
C8_AnalyzedRunsPersist ==
    seen.analyze = "returned" =>
        \/ node = "save" /\ calls.add = 0
        \/ Returned /\ last_node = "save" /\ calls.add = 1

C8_Witness == EndedInDone /\ seen.analyze = "returned" /\ calls.add = 1

\* C9: with force_store = true the filter is never invoked, the decision is
\* store = True with reason "User override", and a MemoryStore write is
\* attempted whatever the filter would have answered.
C9_OverrideSkipsFilter ==
    (Returned /\ last_node = "save" /\ state.force_store) =>
        /\ calls.filter = 0
        /\ filter_decision = [store |-> "True", reason |-> "User override"]
        /\ calls.store = 1
        /\ seen.write \in {"ok", "raise"}

C9_Witness ==
    /\ EndedInDone /\ state.force_store
    /\ seen.filter.kind = "object" /\ seen.filter.store = "False"
    /\ calls.store = 1 /\ result.success /\ result.reason = "User override"

\* The decision of the except branch of the filter.
FailOpenDecision == [store |-> "True", reason |-> "Filter error - storing by default"]

\* C10 as stated: when the filter's provider raises or its output is
\* malformed, the decision is retain=true with a filter-failure reason and
\* the record is stored, on every such failure (read on the runs that reach
\* persist after a successful analysis).
C10_FilterFailureStores ==
    [][(PersistStep /\ seen.analyze = "returned"
            /\ ~state.force_store /\ FilterFails(seen'.filter)) =>
          /\ filter_decision' = FailOpenDecision
          /\ RecordCreated]_vars

\* C10 amended: on every such failure, the first and each repeated one, the
\* decision is retain=true with the filter-failure reason and a MemoryStore
\* write is attempted; the record is stored whenever that write succeeds,
\* and add_memory then reports success with the filter-failure reason.
C10_FilterFailureFailsOpen ==
    [][(PersistStep /\ ~state.force_store /\ FilterFails(seen'.filter)) =>
          /\ filter_errors' = filter_errors + 1
          /\ filter_decision' = FailOpenDecision
          /\ WriteAttempted
          /\ seen'.write = "ok" =>
                 /\ RecordCreated
                 /\ result'.success
                 /\ result'.reason = "Filter error - storing by default"
          /\ seen'.write = "raise" => NoRecordCreated /\ ~result'.success]_vars

\* A second filter failure in a row of runs, stored like the first.
C10_Witness ==
    /\ EndedInDone /\ ~state.force_store
    /\ seen.filter.kind \in {"raise", "notjson"}
    /\ filter_errors >= 2
    /\ filter_decision = FailOpenDecision
    /\ result.success /\ Len(memory[state.user_id]) = 2

----------------------------------------------------------------------------
(* Claims about the MemoryService *)

\* A get_history call has just returned; a search_memories call has.
Listed == last_op.kind = "list"
Searched == last_op.kind = "search"

\* Every record of the sequence is scoped to the user.
OwnRecords(seq, u) == \A i \in 1..Len(seq) : seq[i].user_id = u

\* C11: for every user_id and every integer limit, list(user_id, limit)
\* returns at most `limit` records (none for a limit below one) and never a
\* record written under another user's scope.
C11_ListAtMostLimit ==
    (Listed /\ last_op.user_id \in Users) =>
        /\ Len(listed) <= Max(last_op.limit, 0)
        /\ OwnRecords(listed, last_op.user_id)

\* The records the store holds for a user after the successful writes of
\* add_memory for that user, in write order.
RecordsOf(u) ==
    [i \in 1..Len(written[u]) |->
        MemoryRecord(u, written[u][i].question, written[u][i].answer, build_metadata(u, 1))]

WrittenFor(seq, u) ==
    \A i \in 1..Len(seq) :
        /\ seq[i].metadata.created_by = u
        /\ \E k \in 1..Len(written[u]) : seq[i] = RecordsOf(u)[k]

NoHealthMemory == [u \in StoreUsers |-> RecordsOf(u)]

\* C14: after any number of healthCheck calls interleaved with add calls,
\* list and search return, for every user_id value, the same records as if
\* no healthCheck had run.
C14_HealthCheckInvisible ==
    /\ (Listed /\ last_op.store = "ok") =>
           listed = get_history(NoHealthMemory, last_op.user_id, last_op.limit, "ok")
    /\ (Searched /\ last_op.store \in Rankings) =>
           listed = search_memories(NoHealthMemory, last_op.user_id, last_op.question,
                                    last_op.limit, last_op.store)

\* C15: when the store is unavailable, add returns an outcome with
\* stored = false and an error, without raising and leaving the store as it
\* was, and list and search return empty sequences.
C15_StoreUnavailable ==
    [][/\ (last_op'.kind = "add" /\ last_op'.store = "raise") =>
              /\ ~last_op'.raised
              /\ ~result'.success /\ ~result'.filtered
              /\ result'.error # None
              /\ memory' = memory
       /\ (last_op'.kind \in {"list", "search"} /\ last_op'.store = "raise") =>
              listed' = <<>>]_vars

C15_Witness ==
    /\ last_op.kind = "add" /\ last_op.store = "raise"
    /\ ~result.success /\ result.error # None
    /\ memory[last_op.user_id] # <<>>

----------------------------------------------------------------------------
(* Claims about the stages of a run *)

Stages == {"fetch", "analyze", "save", "error"}

\* The position of a node on the way from the entry point to END.
Rank(n) ==
    CASE n = "fetch" -> 1
      [] n = "analyze" -> 2
      [] n \in {"save", "error"} -> 3
      [] OTHER -> 4

\* C16: within one run there is at most one DataSource call, at most one
\* Synthesizer call and at most one MemoryStore write, and no stage is
\* retried: from a stage the run only moves forward, never to the same or an
\* earlier stage.
C16_AtMostOnceNoRetry ==
    /\ [](calls.datasource <= 1 /\ calls.synthesizer <= 1 /\ calls.store <= 1)
    /\ [][(node \in Stages) => (Rank(node') > Rank(node))]_vars

C16_Witness ==
    /\ EndedInError /\ seen.fetch = "raised"
    /\ calls.datasource = 1 /\ calls.synthesizer = 0 /\ calls.store = 0

\* The step calls the collaborator counted under c.
Calls(c) == calls'[c] = calls[c] + 1

\* C17: the stages of one run execute strictly in sequence: analyze begins
\* only after fetch has completed, persist only after analyze has completed,
\* and no step works on two stages at once.
C17_StagesInSequence ==
    /\ [](/\ node = "analyze" =>
                /\ last_node = "fetch" /\ seen.fetch = "returned"
                /\ calls.datasource = 1 /\ calls.synthesizer = 0 /\ calls.add = 0
          /\ node = "save" =>
                /\ last_node = "analyze" /\ seen.fetch = "returned" /\ seen.analyze # "none"
                /\ calls.datasource = 1 /\ calls.synthesizer = 1 /\ calls.add = 0)
    /\ [][/\ ~(Calls("datasource") /\ Calls("synthesizer"))
          /\ ~(Calls("datasource") /\ Calls("add"))
          /\ ~(Calls("synthesizer") /\ Calls("add"))]_vars

C17_Witness ==
    /\ node = "save" /\ last_node = "analyze"
    /\ seen.fetch = "returned" /\ seen.analyze = "returned"

\* C18: every run started from fetch eventually reaches exactly one terminal
\* state, done or error, whatever the collaborators answer, and makes no
\* further transition afterwards: the only step from END starts a new run.
C18_RunTerminates ==
    /\ (node = "fetch") ~> Returned
    /\ [](Returned => (EndedInDone # EndedInError))
    /\ [][(node = "END") => (node' = EntryPoint /\ runs' = runs + 1)]_vars

C18_Witness ==
    /\ EndedInDone /\ runs = 1
    /\ seen.fetch = "returned" /\ seen.analyze = "returned" /\ seen.write = "raise"

----------------------------------------------------------------------------
(* Claims about timeouts *)

\* The error field after the 30 s timeout of the GitHub call
\* (github_service.py:56, graph.py:38) and of the Gemini call
\* (ai_service.py:68, graph.py:50)
TimeoutErrors ==
    { "GitHub fetch failed: GitHub API request timed out. Please try again.",
      "AI failed: AI service request timed out. Please try again." }

----------------------------------------------------------------------------
(* Two runs of pipeline_graph that overlap.  The compiled graph and its
   MemorySaver are module-level objects shared by every invoke
   (graph.py:117-123); each invoke is given its own initial_state dict and
   the caller's user id as thread_id (main.py:66-78, 136-147).  The
   checkpointer is read when a run starts and written after every node; a
   node is handed the state of its own run. *)

\* The answers the collaborators give to the overlapping runs
ConcGitHubResponses ==
    { g \in GitHubResponses :
        \/ g.kind = "error"
        \/ g.kind = "ok" /\ g.repos \in { <<>>, << RepoRaises, RepoCommits(1) >>,
                                         << RepoCommits(MaxRepoCommits), RepoCommits(0) >> } }

ConcLLMResponses ==
    { [kind |-> "ok", content |-> a] : a \in {"a1", "a2"} }
        \cup { [kind |-> "error", content |-> None] }

\* Mutant: an input value of None is no update, the checkpointed answer and
\* error stay
MergeInput_SkipNone(ckpt, input) ==
    [k \in DOMAIN input |->
        IF ckpt.present /\ k \in {"answer", "error"} /\ input[k] = None
        THEN ckpt.state[k] ELSE input[k]]

\* Mutant: a run on a thread that has a checkpoint resumes from it
MergeInput_KeepCheckpoint(ckpt, input) ==
    IF ckpt.present THEN ckpt.state ELSE input

\* invoke(input, config) on a thread: the checkpointed channels are
\* restored and every key of the input is written over them.
MergeInput(ckpt, input) ==
    [k \in DOMAIN input |-> input[k]]
        @@ (IF ckpt.present THEN ckpt.state ELSE input)

Checkpointed(s) == [present |-> TRUE, state |-> s]

\* The other run is between its invoke and its END.
Overlaps(r) == \E o \in Runs \ {r} : conc.node[o] \in Stages

\* Run r moves to node n with state s, having been answered a.
ConcStep(r, n, s, a) ==
    /\ conc' = [conc EXCEPT !.node[r] = n,
                            !.state[r] = s,
                            !.seen[r] = a,
                            !.checkpoint[s.user_id] = Checkpointed(s),
                            !.overlap = @ \/ Overlaps(r)]
    /\ UNCHANGED <<filter_decision, result>>
    /\ UNCHANGED run_vars
    /\ UNCHANGED service_vars
    /\ UNCHANGED front
    /\ UNCHANGED source
    /\ UNCHANGED kit

ConcInvoke(r, q, u) ==
    /\ conc.node[r] = "idle"
    /\ ConcStep(r, EntryPoint,
                MergeInput(conc.checkpoint[u], InitialState(q, u, FALSE)),
                [NoAnswers EXCEPT !.question = q, !.user_id = u])
    /\ UNCHANGED memory

ConcFetch(r, g) ==
    /\ conc.node[r] = "fetch"
    /\ LET s == fetch_github_data(conc.state[r], g)
       IN  ConcStep(r, EdgeAfterFetch(s), s, [conc.seen[r] EXCEPT !.g = g])
    /\ UNCHANGED memory

ConcAnalyze(r, l) ==
    /\ conc.node[r] = "analyze"
    /\ ConcStep(r, EdgeAfterAnalyze, analyze_with_ai(conc.state[r], l),
                [conc.seen[r] EXCEPT !.l = l])
    /\ UNCHANGED memory

ConcSave(r, f, w) ==
    /\ conc.node[r] = "save"
    /\ LET s == conc.state[r]
           a == add_memory(s.user_id, s.question, s.answer, s.commits_analyzed,
                           s.force_store, f, w, memory)
       IN  /\ ConcStep(r, EdgeAfterSave, save_to_memory(s, a),
                       [conc.seen[r] EXCEPT !.f = f, !.w = w])
           /\ memory' = a.memory

ConcHandleError(r) ==
    /\ conc.node[r] = "error"
    /\ ConcStep(r, EdgeAfterError, handle_error(conc.state[r]), conc.seen[r])
    /\ UNCHANGED memory

ConcNext ==
    \/ \E r \in Runs, q \in Questions, u \in Users : ConcInvoke(r, q, u)
    \/ \E r \in Runs, g \in ConcGitHubResponses : ConcFetch(r, g)
    \/ \E r \in Runs, l \in ConcLLMResponses : ConcAnalyze(r, l)
    \/ \E r \in Runs, f \in DirectFilterResponses, w \in WriteResponses : ConcSave(r, f, w)
    \/ \E r \in Runs : ConcHandleError(r)

ConcSpec == Init /\ [][ConcNext]_vars

\* The final state of a run with the same inputs and the same answers that
\* runs alone: on a fresh checkpointer and an empty store.
Alone(a) ==
    LET s0 == MergeInput(NoCheckpoint, InitialState(a.question, a.user_id, FALSE))
        s1 == fetch_github_data(s0, a.g)
        s2 == analyze_with_ai(s1, a.l)
        r  == add_memory(s2.user_id, s2.question, s2.answer, s2.commits_analyzed,
                         s2.force_store, a.f, a.w, [u \in StoreUsers |-> <<>>])
    IN  IF EdgeAfterFetch(s1) = "error" THEN handle_error(s1)
        ELSE save_to_memory(s2, r)

\* C20: for any interleaving of two runs, the same user id included, each
\* run's final state is the one it would have had running alone, and a step
\* of one run leaves the other run's PipelineState as it was.
C20_RunsIsolated ==
    /\ [](\A r \in Runs : conc.node[r] = "END" => conc.state[r] = Alone(conc.seen[r]))
    /\ [][\A r \in Runs : (conc'.node[r] = conc.node[r]) => (conc'.state[r] = conc.state[r])]_vars

C20_Witness ==
    /\ \A r \in Runs : conc.node[r] = "END"
    /\ conc.overlap
    /\ conc.state["r1"].user_id = conc.state["r2"].user_id
    /\ conc.state["r1"].error # None
    /\ conc.state["r2"].answer = "a2"

----------------------------------------------------------------------------
(* Claims about whole runs and the front ends *)

\* The persist step of a run on the success path: fetch returned k >= 1
\* records, the Synthesizer returned a text, the filter is asked and retains.
SuccessPathPersist ==
    /\ PersistStep
    /\ seen.fetch = "returned" /\ state.commits_analyzed >= 1
    /\ seen.analyze = "returned"
    /\ ~state.force_store /\ FilterRetains(seen'.filter)

\* The final state of the success path: the Synthesizer's text, the number of
\* fetched records, no error.
SuccessFinalState ==
    /\ node' = "END" /\ last_node' = "save"
    /\ state'.answer = seen.answer /\ state'.answer # None
    /\ state'.commits_analyzed = Len(state.github_data.commits)
    /\ state'.commits_analyzed >= 1
    /\ state'.error = None

\* Exactly one record is added, for the run's user, holding its question and
\* answer; nothing else in the store changes.
OneRecordStored ==
    memory' = [memory EXCEPT ![state.user_id] =
                  Append(@, MemoryRecord(state.user_id, state.question, seen.answer,
                                         build_metadata(state.user_id, state.commits_analyzed)))]

C22_StatelessPerCall ==
    \A r \in Runs :
        ~conc.overlap =>
            /\ conc.node[r] = EntryPoint =>
                   conc.state[r] = InitialState(conc.seen[r].question,
                                                conc.seen[r].user_id, FALSE)
            /\ conc.node[r] = "END" => conc.state[r] = Alone(conc.seen[r])

\* A run that ended with an error, then a run of the same user that ended
\* with an answer and no error.
C22_Witness ==
    /\ ~conc.overlap
    /\ \A r \in Runs : conc.node[r] = "END"
    /\ conc.state["r1"].user_id = conc.state["r2"].user_id
    /\ conc.state["r1"].error # None /\ conc.state["r1"].answer = None
    /\ conc.state["r2"].error = None /\ conc.state["r2"].answer # None
    /\ conc.checkpoint[conc.state["r2"].user_id] = Checkpointed(conc.state["r2"])

----------------------------------------------------------------------------
(* main.py: the ask and save front ends.  A handler builds initial_state,
   invokes the graph and answers from the final state. *)

Success(s) ==
    [kind |-> "success", answer |-> s.answer, commits_analyzed |-> s.commits_analyzed,
     message |-> None]
ErrorSignal(m) ==
    [kind |-> "error", answer |-> None, commits_analyzed |-> 0, message |-> m]

\* ask_api (main.py:80-94): HTTP 500 with the error as detail; else the Answer
\* model, whose answer field is a required str, so a None answer raises a
\* validation error that the last except turns into HTTP 500.
ask_api_response(s) ==
    IF Truthy(s.error) THEN ErrorSignal(s.error)
    ELSE IF s.answer = None THEN ErrorSignal("validation error: answer")
    ELSE Success(s)

\* Mutant: ask_cmd without its zero-commits reply
ask_cmd_response_no_zero_check(s) ==
    IF Truthy(s.error) THEN ErrorSignal("Error: " \o s.error)
    ELSE Success(s)

\* ask_cmd (main.py:149-162)
ask_cmd_response(s) ==
    IF Truthy(s.error) THEN ErrorSignal("Error: " \o s.error)
    ELSE IF s.commits_analyzed = 0 THEN ErrorSignal("No commits in last 24 hours!")
    ELSE Success(s)

\* save_cmd (main.py:169-179): it replies, and records nothing.
SaveCmd(u) ==
    /\ ~front.pending
    /\ front' = [front EXCEPT !.saved[u] = TRUE,
                              !.response = [NoResponse EXCEPT !.kind = "override enabled"]]
    /\ UNCHANGED <<memory, filter_decision, result>>
    /\ UNCHANGED run_vars
    /\ UNCHANGED service_vars
    /\ UNCHANGED conc
    /\ UNCHANGED source
    /\ UNCHANGED kit

\* An ask handler up to its invoke (main.py:66-78, 136-147): force_store is
\* the literal False.
Ask(via, q, u) ==
    /\ ~front.pending
    /\ runs < MaxAsks
    /\ InvokeRun(q, u, FALSE)
    /\ front' = [front EXCEPT !.pending = TRUE, !.via = via,
                              !.after_save = front.saved[u],
                              !.saved[u] = FALSE,
                              !.response = NoResponse]

\* The two ask front ends: POST /ask and the /ask command
FrontEnds == {"api", "cmd"}

\* The handler answers from the final state invoke returned.
Respond ==
    /\ front.pending
    /\ node = "END"
    /\ front' = [front EXCEPT !.pending = FALSE,
                              !.response = IF front.via = "api"
                                           THEN ask_api_response(state)
                                           ELSE ask_cmd_response(state)]
    /\ UNCHANGED <<memory, filter_decision, result>>
    /\ UNCHANGED run_vars
    /\ UNCHANGED service_vars
    /\ UNCHANGED conc
    /\ UNCHANGED source
    /\ UNCHANGED kit

FrontNext ==
    \/ \E u \in Users : SaveCmd(u)
    \/ \E via \in FrontEnds, q \in Questions, u \in Users : Ask(via, q, u)
    \/ \E g \in GitHubResponses : Fetch(g)
    \/ \E l \in LLMResponses : Analyze(l)
    \/ \E f \in FilterResponses, w \in WriteResponses : Save(f, w)
    \/ HandleError
    \/ Respond

FrontSpec == Init /\ [][FrontNext]_vars

\* C23: after a user issues the save (override) action, that user's next ask
\* runs with force_store = true, so its question/answer pair is stored
\* whatever the ContentFilter judges.
C23_SaveForcesNextAsk ==
    /\ (front.pending /\ front.after_save) => state.force_store
    /\ (front.pending /\ front.after_save /\ EndedInDone /\ seen.analyze = "returned") =>
           (calls.filter = 0 /\ calls.store = 1)

\* An ask handler has answered, and nothing was handled since.
Responded == ~front.pending /\ front.response.kind \in {"success", "error"}

\* C24: the ask front ends return a success response, the answer text and the
\* record count, only for a final state with error absent, answer set and
\* record_count > 0; every other final state yields an error signal with a
\* message, never a success response with an absent answer.
C24_SuccessOnlyForGoodState ==
    Responded =>
        /\ front.response.kind = "success" <=>
               (state.error = None /\ state.answer # None /\ state.commits_analyzed > 0)
        /\ front.response.kind = "success" =>
               /\ front.response.answer = state.answer
               /\ front.response.answer # None
               /\ front.response.commits_analyzed = state.commits_analyzed
        /\ front.response.kind = "error" =>
               /\ front.response.message # None
               /\ front.response.answer = None

\* An empty fetch, which leaves error absent, answered by POST /ask.
C24_Witness ==
    /\ Responded /\ front.via = "api"
    /\ EmptyFetch /\ state.error = None /\ state.answer = None
    /\ front.response.kind = "error"

----------------------------------------------------------------------------
(* The Synthesizer on its own: analyze_with_ai, and through it
   AIService.answer_question, applied to any state a caller may hand it. *)

\* Commit lists of up to MaxRepoCommits commits from MaxRepoList repositories
CommitLists ==
    UNION { [1..n -> 1..MaxRepoList] : n \in 0..MaxRepoCommits }

\* github_data as answer_question may receive it: None, or a GitHubData
RecordSets == {NoGitHubData} \cup { GitHubData(c) : c \in CommitLists }

SynthLLMResponses == LLMResponses \cup ConcLLMResponses

Synthesize(q, u, fs, d, l) ==
    /\ LET s == [InitialState(q, u, fs) EXCEPT !.github_data = d,
                                               !.commits_analyzed = d.total_commits]
           r == answer_question(s.question, s.github_data, l)
       IN  /\ state' = analyze_with_ai(s, l)
           /\ calls' = [NoCalls EXCEPT !.synthesizer = 1,
                                       !.llm = IF r.called THEN 1 ELSE 0]
           /\ seen' = [NothingSeen EXCEPT !.analyze = Outcome(r), !.answer = r.value]
    /\ UNCHANGED <<node, last_node, memory, runs, filter_decision, filter_errors, result>>
    /\ UNCHANGED service_vars
    /\ UNCHANGED conc
    /\ UNCHANGED source
    /\ UNCHANGED kit
    /\ UNCHANGED front

SynthNext ==
    \E q \in Questions, u \in Users, fs \in BOOLEAN, d \in RecordSets,
       l \in SynthLLMResponses : Synthesize(q, u, fs, d, l)

SynthSpec == Init /\ [][SynthNext]_vars

NoRecords == ~state.github_data.present \/ state.github_data.commits = <<>>

\* C25: given an absent or empty record set the Synthesizer returns the
\* canned no-recent-activity text without calling the language-generation
\* service; given at least one record it calls the service exactly once.
C25_EmptySetShortCircuits ==
    calls.synthesizer = 1 =>
        /\ NoRecords =>
               /\ calls.llm = 0
               /\ seen.analyze = "returned"
               /\ seen.answer = "No recent commits found."
               /\ state.answer = "No recent commits found."
        /\ ~NoRecords => calls.llm = 1

C25_Witness ==
    /\ calls.synthesizer = 1 /\ node = "idle"
    /\ ~state.github_data.present
    /\ calls.llm = 0 /\ state.answer = "No recent commits found."

----------------------------------------------------------------------------
(* The fetch stage on its own: fetch_github_data, and through it
   GitHubService.get_recent_commits, on repository lists that reach and
   pass the caps of 10 repositories and 20 commits each. *)

\* Repository lists of n repositories with k commits each, one of them (j)
\* failing to be read, or none (j = 0).
CapRepoLists ==
    { [i \in 1..n |-> IF i = j THEN RepoRaises ELSE RepoCommits(k)] :
        n \in {1, 2, MaxRepos, MaxRepos + 1},
        j \in 0..(MaxRepos + 1),
        k \in {0, 1, MaxPerRepo, MaxPerRepo + 1} }

CapGitHubResponses ==
    { [kind |-> "ok", repos |-> r] : r \in CapRepoLists }
        \cup { [kind |-> k, repos |-> <<>>] : k \in {"timeout", "error"} }

DirectFetch(q, u, g) ==
    /\ state' = fetch_github_data(InitialState(q, u, FALSE), g)
    /\ calls' = [NoCalls EXCEPT !.datasource = 1]
    /\ seen' = [NothingSeen EXCEPT !.fetch = Outcome(get_recent_commits(g))]
    /\ source' = g
    /\ UNCHANGED <<node, last_node, memory, runs, filter_decision, filter_errors, result>>
    /\ UNCHANGED service_vars
    /\ UNCHANGED conc
    /\ UNCHANGED front
    /\ UNCHANGED kit

FetchNext ==
    \E q \in Questions, u \in Users, g \in CapGitHubResponses :
        DirectFetch(q, u, g)

FetchSpec == Init /\ [][FetchNext]_vars

\* How many of the fetched commits come from repository i
CommitsFrom(i) ==
    Cardinality({ j \in 1..Len(state.github_data.commits) : state.github_data.commits[j] = i })

----------------------------------------------------------------------------
(* The fields no node writes *)

\* The inputs of a run as the caller passed them
Inputs(s) == <<s.question, s.user_id, s.force_store>>

\* C27: no node changes the run's question, user_id or force_store: every
\* step taken by a node (fetch, analyze, save, error) leaves the three fields
\* as invoke received them; and a fetch whose data-source call raised leaves
\* github_data and commits_analyzed at the values of the initial state.
C27_InputsFramed ==
    [][(node \in Stages) =>
          /\ Inputs(state') = Inputs(state)
          /\ (node = "fetch" /\ seen'.fetch = "raised") =>
                 /\ state'.github_data = NoGitHubData
                 /\ state'.commits_analyzed = 0
                 /\ state'.github_data = state.github_data
                 /\ state'.commits_analyzed = state.commits_analyzed]_vars

\* A run started with the override flag set for the second user and question
\* whose fetch raised and was then handled by the error node.
C27_Witness ==
    /\ last_node = "error"
    /\ seen.fetch = "raised"
    /\ Inputs(state) = <<"q2", "u2", TRUE>>
    /\ Truthy(state.error)
    /\ state.github_data = NoGitHubData
    /\ state.commits_analyzed = 0

----------------------------------------------------------------------------
(* spec_kit.py: the document-generation workflow *)

\* What a specify / plan / task call leaves alone
KitFrame ==
    /\ UNCHANGED <<memory, filter_decision, result>>
    /\ UNCHANGED run_vars
    /\ UNCHANGED service_vars
    /\ UNCHANGED <<conc, front, source>>

\* spec_kit_service.specify(feature_description)
Specify(d, l) ==
    /\ LET r == specify(kit.files, d, l)
       IN  kit' = [files |-> r.files,
                   op |-> [kind |-> "specify", name |-> r.feature_name,
                           raised |-> r.raised, msg |-> r.msg]]
    /\ KitFrame

\* spec_kit_service.plan(feature_name)
Plan(n, l1, l2) ==
    /\ LET r == plan(kit.files, n, l1, l2)
       IN  kit' = [files |-> r.files,
                   op |-> [kind |-> "plan", name |-> n, raised |-> r.raised, msg |-> r.msg]]
    /\ KitFrame

\* spec_kit_service.task(feature_name)
Task(n, l) ==
    /\ LET r == task(kit.files, n, l)
       IN  kit' = [files |-> r.files,
                   op |-> [kind |-> "task", name |-> n, raised |-> r.raised, msg |-> r.msg]]
    /\ KitFrame

KitNext ==
    \/ \E d \in Descriptions, l \in KitLLMResponses : Specify(d, l)
    \/ \E n \in KitNames, l1 \in KitLLMResponses, l2 \in KitLLMResponses : Plan(n, l1, l2)
    \/ \E n \in KitNames, l \in KitLLMResponses : Task(n, l)

KitSpec == Init /\ [][KitNext]_vars

\* A feature with plan.md or tasks.md has spec.md, in the files and in what
\* list_features reports
SpecFirst ==
    /\ \A n \in KitNames :
           (kit.files[n].plan # None \/ kit.files[n].tasks # None) => kit.files[n].spec # None
    /\ \A f \in list_features(kit.files) : (f.has_plan \/ f.has_tasks) => f.has_spec

\* The step is a plan or task call for a feature that had no spec.md
WithoutSpec ==
    /\ kit'.op.kind \in {"plan", "task"}
    /\ kit.files[kit'.op.name].spec = None

\* C28: whatever specify / plan / task calls have been made, failed ones
\* included, a feature that has a plan or a tasks file has a spec file; and a
\* plan or task call for a feature without a spec file raises
\* "Run /specify first" and leaves every file as it was.
C28_SpecifyFirst ==
    /\ []SpecFirst
    /\ [][WithoutSpec =>
              /\ kit'.op.raised
              /\ kit'.op.msg = "Run /specify first"
              /\ kit'.files = kit.files]_vars

\* One feature has all of its files, by descriptions that name it through
\* the 50-character cut; a task call for another feature, whose directory a
\* failed specify created, has just been refused.
C28_Witness ==
    LET full == Repeat("a", MaxNameSource)
        bare == <<"a", "-", "b">>
    IN  /\ kit.files[full].spec # None
        /\ kit.files[full].plan # None
        /\ kit.files[full].tasks # None
        /\ kit.files[bare].dir
        /\ kit.files[bare].spec = None
        /\ kit.op = [kind |-> "task", name |-> bare, raised |-> TRUE,
                     msg |-> "Run /specify first"]

====
